---- MODULE Spec2Model ----
(***************************************************************************)
(* Model of ReactiveCollection (lib/reactive-collection.js): the document  *)
(* store, the query pipeline, the mutation pipeline and the debounced      *)
(* notification subsystem, executed on the host's event loop: synchronous  *)
(* code of a call, a FIFO queue of promise reactions (microtasks) and the  *)
(* host's timer table; and of ReactiveDatabase, the registry of the        *)
(* collections by name.                                                    *)
(***************************************************************************)
EXTENDS Integers, Sequences, FiniteSets, TLC

(***************************************************************************)
(* Bounds of the model.                                                    *)
(***************************************************************************)
MaxOps == 3
MaxBatch == 2
MaxSubs == 4
TickLen == 100
MaxDocs == 3
MaxSkip == 2
MaxLimit == 2
MaxGets == 3

(***************************************************************************)
(* Program constants.                                                      *)
(***************************************************************************)
Debounce == 200

(***************************************************************************)
(* Host values.  A value is a tagged pair; a document is a function from   *)
(* field names to values.  Objects of the store live in the heap and are   *)
(* referred to by address, so that aliasing is the host's.                 *)
(***************************************************************************)
Undefined == <<"undefined", 0>>
Null == <<"null", 0>>
Num(n) == <<"number", n>>
Str(s) == <<"string", s>>
Bool(b) == <<"boolean", b>>
Obj(d) == <<"object", d>>
Arr(s) == <<"array", s>>

EmptyDoc == [f \in {} |-> Undefined]

Get(d, f) == IF f \in DOMAIN d THEN d[f] ELSE Undefined

HasOwn(d, f) == f \in DOMAIN d

Truthy(v) ==
  CASE v[1] = "undefined" -> FALSE
    [] v[1] = "null" -> FALSE
    [] v[1] = "number" -> v[2] # 0
    [] v[1] = "string" -> v[2] # ""
    [] v[1] = "boolean" -> v[2]
    [] OTHER -> TRUE

\* a == b of the host in place of a === b: null and undefined equal each
\* other, primitives of two types are compared as numbers
LooseEq(a, b) ==
  IF a[1] \in {"object", "array"} \/ b[1] \in {"object", "array"} THEN FALSE
  ELSE IF a[1] \in {"null", "undefined"} \/ b[1] \in {"null", "undefined"}
       THEN a[1] \in {"null", "undefined"} /\ b[1] \in {"null", "undefined"}
       ELSE IF a[1] = b[1] THEN a = b
            ELSE (a[1] \in {"boolean", "number"} /\ b[1] \in {"boolean", "number"})
                 /\ (IF a[1] = "boolean" THEN (IF a[2] THEN 1 ELSE 0) ELSE a[2])
                      = (IF b[1] = "boolean" THEN (IF b[2] THEN 1 ELSE 0) ELSE b[2])

\* a === b: primitives by value; two object literals are never identical
StrictEq(a, b) == a[1] \notin {"object", "array"} /\ a = b

\* the strings the model compares, in the order of their code units
CodeUnitOrder == <<"", "0", "1", "2", "x", "y">>

StrLess(s, t) ==
  \E i, j \in 1..Len(CodeUnitOrder) :
    CodeUnitOrder[i] = s /\ CodeUnitOrder[j] = t /\ i < j

\* ToNumber of the host on a primitive; nan for undefined, for a string that
\* is no numeral and for an object
ToNumber(v) ==
  CASE v[1] = "number" -> [nan |-> FALSE, n |-> v[2]]
    [] v[1] = "null" -> [nan |-> FALSE, n |-> 0]
    [] v[1] = "boolean" -> [nan |-> FALSE, n |-> IF v[2] THEN 1 ELSE 0]
    [] v[1] = "string" /\ v[2] = "" -> [nan |-> FALSE, n |-> 0]
    [] v[1] = "string" /\ v[2] \in {"0", "1", "2"} ->
         [nan |-> FALSE, n |-> CHOOSE k \in 0..2 : <<"0", "1", "2">>[k + 1] = v[2]]
    [] OTHER -> [nan |-> TRUE, n |-> 0]

\* a < b of the host: two strings by code units, anything else as numbers,
\* false when one of them is NaN
JsLess(a, b) ==
  IF a[1] = "string" /\ b[1] = "string" THEN StrLess(a[2], b[2])
  ELSE ~ToNumber(a).nan /\ ~ToNumber(b).nan /\ ToNumber(a).n < ToNumber(b).n

JsGreater(a, b) == JsLess(b, a)

JsLessEq(a, b) ==
  IF a[1] = "string" /\ b[1] = "string" THEN a[2] = b[2] \/ StrLess(a[2], b[2])
  ELSE ~ToNumber(a).nan /\ ~ToNumber(b).nan /\ ToNumber(a).n <= ToNumber(b).n

JsGreaterEq(a, b) == JsLessEq(b, a)

Min(a, b) == IF a < b THEN a ELSE b

Max(a, b) == IF a > b THEN a ELSE b

Range(s) == {s[i] : i \in 1..Len(s)}

RECURSIVE Decimal(_)
\* `${n}` for n >= 0
Decimal(n) ==
  LET digit == <<"0", "1", "2", "3", "4", "5", "6", "7", "8", "9">>
  IN IF n < 10 THEN digit[n + 1] ELSE Decimal(n \div 10) \o digit[(n % 10) + 1]

\* Array.prototype.indexOf(v) >= 0: membership by strict equality
IndexOfFound(arr, v) == \E i \in 1..Len(arr[2]) : StrictEq(arr[2][i], v)

\* the element a nested sub-query is matched against: the fields of a nested
\* document; a primitive has none of the queried properties
AsDoc(v) == IF v[1] = "object" THEN v[2] ELSE EmptyDoc

\* one operator of an operator mapping: TRUE when it does NOT match
OperatorDoNotMatch(subAttribute, value, operand) ==
  CASE subAttribute = "$lte" -> JsGreater(value, operand)
    [] subAttribute = "$lt" -> JsGreaterEq(value, operand)
    [] subAttribute = "$gte" -> JsLess(value, operand)
    [] subAttribute = "$gt" -> JsLessEq(value, operand)
    [] subAttribute = "$ne" -> StrictEq(value, operand)
    [] subAttribute = "$eq" -> ~StrictEq(value, operand)
    [] subAttribute = "$in" -> ~IndexOfFound(operand, value)
    [] subAttribute = "$nin" -> IndexOfFound(operand, value)
    [] subAttribute = "$exists" ->
         IF Truthy(operand) THEN value = Undefined ELSE value # Undefined
    [] OTHER -> FALSE

Operators == {"$lte", "$lt", "$gte", "$gt", "$ne", "$eq", "$in", "$nin", "$exists"}

RECURSIVE ElementIsValidForQuery(_, _)
\* _elementIsValidForQuery(elementToTest, query)
ElementIsValidForQuery(elementToTest, query) ==
  LET AttributeDoNotMatch(attribute) ==
        LET currentSubQuery == query[attribute]
            value == Get(elementToTest, attribute)
        IN IF Truthy(currentSubQuery) /\ ~HasOwn(elementToTest, attribute)
           THEN TRUE
           ELSE IF Truthy(currentSubQuery) /\ currentSubQuery[1] = "object"
                THEN \E subAttribute \in DOMAIN currentSubQuery[2] :
                       IF subAttribute \in Operators
                       THEN OperatorDoNotMatch(subAttribute, value,
                                               currentSubQuery[2][subAttribute])
                       ELSE ~ElementIsValidForQuery(AsDoc(value), currentSubQuery[2])
                ELSE ~StrictEq(value, currentSubQuery)
  IN ~(\E attribute \in DOMAIN query : AttributeDoNotMatch(attribute))

RECURSIVE OrderByManyProperties(_, _, _, _)
\* _orderByManyProperties(a, b, sort, keys, keyIndex); sort is the ordered
\* mapping as a sequence of <<key, direction>>, so keys[i] = sort[i][1]
OrderByManyProperties(a, b, sort, keyIndex) ==
  LET inRange == keyIndex <= Len(sort)
      va == IF inRange THEN Get(a, sort[keyIndex][1]) ELSE Undefined
      vb == IF inRange THEN Get(b, sort[keyIndex][1]) ELSE Undefined
      dir == IF inRange THEN sort[keyIndex][2] ELSE 0
  IN IF JsGreater(va, vb) THEN (IF dir > 0 THEN 1 ELSE -1)
     ELSE IF JsLess(va, vb) THEN (IF dir < 0 THEN 1 ELSE -1)
     ELSE IF keyIndex > Len(sort) THEN 0
     ELSE OrderByManyProperties(a, b, sort, keyIndex + 1)

RECURSIVE InsertSorted(_, _, _, _)
\* x placed after every element of the sorted sequence s it does not precede
InsertSorted(s, x, h, sort) ==
  IF s = <<>> THEN <<x>>
  ELSE IF OrderByManyProperties(h[x], h[s[Len(s)]], sort, 1) < 0
       THEN InsertSorted(SubSeq(s, 1, Len(s) - 1), x, h, sort) \o <<s[Len(s)]>>
       ELSE s \o <<x>>

RECURSIVE SortResults(_, _, _)
\* results.sort(comparator): the host's sort is stable
SortResults(results, h, sort) ==
  IF results = <<>> THEN <<>>
  ELSE InsertSorted(SortResults(SubSeq(results, 1, Len(results) - 1), h, sort),
                    results[Len(results)], h, sort)

\* this._content.filter(el => this._elementIsValidForQuery(el, query))
FilterContent(h, c, query) ==
  SelectSeq(c, LAMBDA adr : ElementIsValidForQuery(h[adr], query))

\* first .then of find: sort when options.sort has a key
SortStage(results, h, options) ==
  IF Len(options.sort) = 0 THEN results ELSE SortResults(results, h, options.sort)

\* options.skip > 0 ? results.splice(options.skip) : results
SkipStage(results, options) ==
  IF options.skip > 0 THEN SubSeq(results, options.skip + 1, Len(results)) ELSE results

\* options.limit > 0 ? results.splice(0, options.limit) : results
LimitStage(results, options) ==
  IF options.limit > 0 THEN SubSeq(results, 1, Min(options.limit, Len(results)))
  ELSE results

NoOptions == [sort |-> <<>>, skip |-> 0, limit |-> 0, upsert |-> FALSE]

(***************************************************************************)
(* The patch-application collaborator (modifyjs): a replacement document   *)
(* or a $set modifier applied to a base document.                          *)
(***************************************************************************)
Modify(doc, patch) ==
  IF patch.kind = "replace" THEN patch.fields
  ELSE [f \in DOMAIN doc \cup DOMAIN patch.fields |->
          IF f \in DOMAIN patch.fields THEN patch.fields[f] ELSE doc[f]]

(***************************************************************************)
(* The collection.  The operations are functions of a record of the        *)
(* collection's fields, the host's timer table and the history variables,  *)
(* so that a call made from inside a subscriber callback is the same       *)
(* operation as a call made by a client.                                   *)
(***************************************************************************)
Name == "c"
NoTimer == 0
NoDocument == 0
NoBadId == Null

\* this._content.find(el => (el || {})._id === current)
FindById(col, id) ==
  LET hits == {i \in 1..Len(col.content) :
                 StrictEq(Get(col.heap[col.content[i]], "_id"), id)}
  IN IF hits = {} THEN NoDocument
     ELSE col.content[CHOOSE i \in hits : \A j \in hits : i <= j]

\* this._content.findIndex(el => el._id === id), 0 when there is none
FindIndexById(col, id) ==
  LET hits == {i \in 1..Len(col.content) :
                 StrictEq(Get(col.heap[col.content[i]], "_id"), id)}
  IN IF hits = {} THEN 0 ELSE CHOOSE i \in hits : \A j \in hits : i <= j

\* clearTimeout(handle): a handle that is not armed is ignored
ClearTimeout(timers, handle) ==
  [h \in DOMAIN timers \ {handle} |-> timers[h]]

\* setTimeout(callback, 200): a handle no armed timer has
NewHandle(timers) ==
  CHOOSE h \in 1..(Cardinality(DOMAIN timers) + 1) : h \notin DOMAIN timers

RECURSIVE LastAffected(_, _)
\* history: the ids in the order in which each was last affected
LastAffected(order, ids) ==
  IF ids = <<>> THEN order
  ELSE LastAffected(Append(SelectSeq(order, LAMBDA id : id # Head(ids)), Head(ids)),
                    Tail(ids))

Change(col, id, operationType) ==
  [collection |-> Name, _id |-> id, operationType |-> operationType,
   fullDocument |-> FindById(col, id)]

\* _notifyChangesForIds(ids, operationType)
NotifyChangesForIds(col, ids, operationType) ==
  LET cleared == IF col.notifyTimeout # NoTimer
                 THEN ClearTimeout(col.timers, col.notifyTimeout)
                 ELSE col.timers
      data == [i \in 1..Len(ids) |-> Change(col, ids[i], operationType)]
      kept == SelectSeq(col.changesToNotify, LAMBDA el : el._id \notin Range(ids))
      handle == NewHandle(cleared)
  IN [col EXCEPT !.changesToNotify = kept \o data,
                 !.notifyTimeout = handle,
                 !.timers = cleared @@ (handle :> Debounce),
                 !.sinceNotify = 0,
                 !.affected = LastAffected(@, ids),
                 !.latest = [id \in DOMAIN col.latest \cup Range(ids) |->
                               IF id \in Range(ids)
                               THEN Change(col, id, operationType)
                               ELSE col.latest[id]]]

\* an id generator whose counter wraps around
ObjectIdWrapping(lastId) == Str(Decimal(lastId % 2))

\* _objectId()
ObjectId(lastId) == Str(Decimal(lastId))

RECURSIVE AssignIds(_, _, _, _)
\* the forEach of insert: mint the missing ids, remember the last id that is
\* already stored
AssignIds(col, data, i, acc) ==
  IF i > Len(data) THEN acc
  ELSE LET obj == data[i]
       IN IF ~HasOwn(obj, "_id")
          THEN AssignIds(col, data, i + 1,
                 [acc EXCEPT !.data = Append(@, obj @@ [_id |-> ObjectId(acc.lastId)]),
                             !.lastId = @ + 1,
                             !.minted = Append(@, ObjectId(acc.lastId))])
          ELSE AssignIds(col, data, i + 1,
                 [acc EXCEPT !.data = Append(@, obj),
                             !.badId = IF FindIndexById(col, obj._id) > 0
                                       THEN obj._id ELSE @])

\* insert that rejects a batch with a stored id only after the batch has been
\* appended and notified
InsertStoresBeforeCheck(col, data) ==
  LET assigned == AssignIds(col, data, 1,
                    [data |-> <<>>, lastId |-> col.lastId, badId |-> NoBadId,
                     minted |-> <<>>])
      n == Len(col.heap)
      stored == [col EXCEPT !.lastId = assigned.lastId,
                            !.heap = @ \o assigned.data,
                            !.content = @ \o [i \in 1..Len(data) |-> n + i],
                            !.minted = @ \o assigned.minted,
                            !.generated = @ \o assigned.minted]
      ids == [i \in 1..Len(data) |-> assigned.data[i]._id]
  IN [col |-> NotifyChangesForIds(stored, ids, "insert"),
      rejected |-> assigned.badId # NoBadId]

\* insert(data), data an array of documents: the collection after the call
\* and whether the promise was rejected
Insert(col, data) ==
  LET assigned == AssignIds(col, data, 1,
                    [data |-> <<>>, lastId |-> col.lastId, badId |-> NoBadId,
                     minted |-> <<>>])
      n == Len(col.heap)
      stored == [col EXCEPT !.lastId = assigned.lastId,
                            !.heap = @ \o assigned.data,
                            !.content = @ \o [i \in 1..Len(data) |-> n + i],
                            !.minted = @ \o assigned.minted,
                            !.generated = @ \o assigned.minted]
      ids == [i \in 1..Len(data) |-> assigned.data[i]._id]
  IN IF assigned.badId # NoBadId
     THEN [col |-> [col EXCEPT !.lastId = assigned.lastId,
                               !.generated = @ \o assigned.minted],
           rejected |-> TRUE]
     ELSE [col |-> NotifyChangesForIds(stored, ids, "insert"), rejected |-> FALSE]

\* an in-place replace that takes the _id of the patched document too
ReplaceWithId(result, modified) ==
  [f \in (DOMAIN result \cap {"_id"}) \cup DOMAIN modified |->
     IF f \in DOMAIN modified THEN modified[f] ELSE result[f]]

\* the in-place replace of update: every field but _id is deleted from the
\* stored object, then every field of the patched document but _id is set
ReplaceInPlace(result, modified) ==
  [f \in (DOMAIN result \cap {"_id"}) \cup (DOMAIN modified \ {"_id"}) |->
     IF f = "_id" THEN result[f] ELSE modified[f]]

\* an update that patches every document, selected or not
ModifyEveryDocument(h, results, replace, i) ==
  [adr \in DOMAIN h |-> ReplaceInPlace(h[adr], Modify(h[adr], replace))]

RECURSIVE ModifyResults(_, _, _, _)
\* results.forEach of update, on the heap
ModifyResults(h, results, replace, i) ==
  IF i > Len(results) THEN h
  ELSE ModifyResults(
         [h EXCEPT ![results[i]] = ReplaceInPlace(@, Modify(@, replace))],
         results, replace, i + 1)

\* an update that notifies its ids also when it has selected none
UpdateNotifiesNoMatch(col, results, query, replace, options) ==
  IF Len(results) = 0 /\ options.upsert
  THEN LET ins == Insert(col, <<Modify(query, replace)>>)
       IN [col |-> ins.col,
           outcome |-> IF ins.rejected THEN "pending" ELSE "resolved"]
  ELSE LET h == ModifyResults(col.heap, results, replace, 1)
           ids == [i \in 1..Len(results) |-> Get(h[results[i]], "_id")]
       IN [col |-> NotifyChangesForIds([col EXCEPT !.heap = h], ids, "update"),
           outcome |-> "resolved"]

\* the .then of update on the results of find: the collection after it and
\* how the promise of update ends
UpdateThen(col, results, query, replace, options) ==
  IF Len(results) = 0
  THEN IF options.upsert
       THEN LET ins == Insert(col, <<Modify(query, replace)>>)
            IN [col |-> ins.col,
                outcome |-> IF ins.rejected THEN "pending" ELSE "resolved"]
       ELSE [col |-> col, outcome |-> "resolved"]
  ELSE LET h == ModifyResults(col.heap, results, replace, 1)
           ids == [i \in 1..Len(results) |-> Get(h[results[i]], "_id")]
       IN [col |-> NotifyChangesForIds([col EXCEPT !.heap = h], ids, "update"),
           outcome |-> "resolved"]

RECURSIVE RemoveResults(_, _, _, _)
\* results.forEach of remove: the stored sequence and the removed ids
RemoveResults(col, results, i, ids) ==
  IF i > Len(results) THEN [col |-> col, ids |-> ids]
  ELSE LET id == Get(col.heap[results[i]], "_id")
           index == FindIndexById(col, id)
       IN IF index > 0
          THEN RemoveResults(
                 [col EXCEPT !.content = SubSeq(@, 1, index - 1)
                                           \o SubSeq(@, index + 1, Len(@))],
                 results, i + 1, Append(ids, id))
          ELSE RemoveResults(col, results, i + 1, ids)

\* the .then of remove on the results of find
RemoveThen(col, results) ==
  LET removed == RemoveResults(col, results, 1, <<>>)
  IN [col |-> NotifyChangesForIds(removed.col, removed.ids, "remove"),
      outcome |-> "resolved"]

\* remove hands find { limit: 1 } for justOne, no options otherwise
RemoveOptions(justOne) == IF justOne THEN [NoOptions EXCEPT !.limit = 1] ELSE NoOptions

\* find that truncates to options.limit before it drops options.skip
FindAllLimitFirst(col, query, options) ==
  SkipStage(LimitStage(SortStage(FilterContent(col.heap, col.content, query),
                                 col.heap, options), options), options)

\* what find resolves to when nothing runs between its steps
FindAll(col, query, options) ==
  LimitStage(SkipStage(SortStage(FilterContent(col.heap, col.content, query),
                                 col.heap, options), options), options)

\* last .then of find: without a projection the stored documents themselves;
\* with one, per document a new object of _id and the keys whose flag is
\* truthy (a key the document lacks is set to undefined), _id deleted when
\* the projection has a falsy _id
ProjectStage(results, h, projection) ==
  IF ~Truthy(projection) THEN [i \in 1..Len(results) |-> h[results[i]]]
  ELSE LET flags == projection[2]
           kept == {k \in DOMAIN flags : Truthy(flags[k])}
           keys == IF HasOwn(flags, "_id") /\ ~Truthy(flags["_id"])
                   THEN kept \ {"_id"} ELSE kept \cup {"_id"}
       IN [i \in 1..Len(results) |-> [k \in keys |-> Get(h[results[i]], k)]]

\* find(query, projection, options): what the promise resolves to
Find(col, query, projection, options) ==
  ProjectStage(FindAll(col, query, options), col.heap, projection)

\* findOne that returns the last element of find under the caller's options
FindOneLast(col, query, projection, options) ==
  LET results == Find(col, query, projection, options)
  IN IF results = <<>> THEN Undefined ELSE Obj(results[Len(results)])

\* findOne(query, projection, options): find with { ...options, limit: 1 },
\* then results[0], undefined for no result
FindOne(col, query, projection, options) ==
  LET results == Find(col, query, projection, [options EXCEPT !.limit = 1])
  IN IF results = <<>> THEN Undefined ELSE Obj(results[1])

(***************************************************************************)
(* The reference run: every call run to completion before the next one is  *)
(* issued.  It keeps the stored documents and the id counter.              *)
(***************************************************************************)
NoTimers == [h \in {} |-> 0]
NoLatest == [id \in {} |-> 0]

RefCol(r) ==
  [heap |-> r.docs, content |-> [i \in 1..Len(r.docs) |-> i], lastId |-> r.lastId,
   changesToNotify |-> <<>>, notifyTimeout |-> NoTimer, timers |-> NoTimers,
   minted |-> <<>>, generated |-> <<>>, sinceNotify |-> 0, affected |-> <<>>,
   latest |-> NoLatest]

RefOf(col) ==
  [docs |-> [i \in 1..Len(col.content) |-> col.heap[col.content[i]]],
   lastId |-> col.lastId]

RefInsert(r, data) ==
  LET ins == Insert(RefCol(r), data)
  IN [ref |-> RefOf(ins.col),
      outcome |-> IF ins.rejected THEN "rejected" ELSE "resolved"]

RefUpdate(r, query, replace, options) ==
  LET c == RefCol(r)
      upd == UpdateThen(c, FindAll(c, query, options), query, replace, options)
  IN [ref |-> RefOf(upd.col), outcome |-> upd.outcome]

RefRemove(r, query, justOne) ==
  LET c == RefCol(r)
      rem == RemoveThen(c, FindAll(c, query, RemoveOptions(justOne)))
  IN [ref |-> RefOf(rem.col), outcome |-> rem.outcome]

(***************************************************************************)
(* State.                                                                  *)
(***************************************************************************)
VARIABLES
  heap,             \* the documents ever stored, by address
  content,          \* this._content: addresses, in store order
  lastId,           \* this._lastId
  changesToNotify,  \* this._changesToNotify
  notifyTimeout,    \* this._notifyTimeout: a timer handle, NoTimer before the first
  timers,           \* the host's armed timers: handle -> time left
  watchers,         \* this._watchers, in the Map's iteration order
  jobs,             \* the host's queue of promise reactions
  opCount,          \* calls of insert, update and remove so far
  subCount,         \* calls of subscribe and unsubscribe so far
  outcome,          \* per call: "pending", "resolved" or "rejected"
  minted,           \* the ids of the stored documents inserted without _id
  generated,        \* every string _objectId has returned, oldest first
  sinceNotify,      \* time since the last call of _notifyChangesForIds
  affected,         \* the ids affected since the last flush began, oldest first
  latest,           \* per id: the last change built for it
  firstSeen,        \* the watchers in the order of their first subscribe
  lastFlush,        \* what the last flush did
  ref,              \* the reference run
  refOutcome,       \* the outcomes of the reference run
  probe,            \* the last call that is recorded: its arguments and result
  db                \* the database: its collections by name and the handles given out

colVars == <<heap, content, lastId, changesToNotify, notifyTimeout, timers, opCount,
             outcome, minted, generated, sinceNotify, affected, latest, ref,
             refOutcome>>

vars == <<heap, content, lastId, changesToNotify, notifyTimeout, timers, watchers,
          jobs, opCount, subCount, outcome, minted, generated, sinceNotify, affected,
          latest, firstSeen, lastFlush, ref, refOutcome, probe, db>>

Col ==
  [heap |-> heap, content |-> content, lastId |-> lastId,
   changesToNotify |-> changesToNotify, notifyTimeout |-> notifyTimeout,
   timers |-> timers, opCount |-> opCount, outcome |-> outcome, minted |-> minted,
   generated |-> generated,
   sinceNotify |-> sinceNotify, affected |-> affected, latest |-> latest,
   ref |-> ref, refOutcome |-> refOutcome]

SetCol(c) ==
  /\ heap' = c.heap
  /\ content' = c.content
  /\ lastId' = c.lastId
  /\ changesToNotify' = c.changesToNotify
  /\ notifyTimeout' = c.notifyTimeout
  /\ timers' = c.timers
  /\ opCount' = c.opCount
  /\ outcome' = c.outcome
  /\ minted' = c.minted
  /\ generated' = c.generated
  /\ sinceNotify' = c.sinceNotify
  /\ affected' = c.affected
  /\ latest' = c.latest
  /\ ref' = c.ref
  /\ refOutcome' = c.refOutcome

\* no query function has been called yet
NoProbe ==
  [fn |-> "none", docs |-> <<>>, query |-> EmptyDoc, projection |-> Undefined,
   options |-> NoOptions, result |-> Undefined]

\* new ReactiveDatabase(): this.collections = {}, no collection constructed,
\* no handle given out
NoDb == [collections |-> <<>>, stores |-> <<>>, handles |-> <<>>]

NoFlush ==
  [happened |-> FALSE, registry |-> <<>>, calls |-> <<>>, cleared |-> FALSE,
   atClear |-> <<>>, elapsed |-> 0, due |-> <<>>]

Init ==
  /\ heap = <<>>
  /\ content = <<>>
  /\ lastId = 0
  /\ changesToNotify = <<>>
  /\ notifyTimeout = NoTimer
  /\ timers = NoTimers
  /\ watchers = <<>>
  /\ jobs = <<>>
  /\ opCount = 0
  /\ subCount = 0
  /\ outcome = <<>>
  /\ minted = <<>>
  /\ generated = <<>>
  /\ sinceNotify = 0
  /\ affected = <<>>
  /\ latest = NoLatest
  /\ firstSeen = <<>>
  /\ lastFlush = NoFlush
  /\ ref = [docs |-> <<>>, lastId |-> 0]
  /\ refOutcome = <<>>
  /\ probe = NoProbe
  /\ db = NoDb

(***************************************************************************)
(* The inputs of the calls.                                                *)
(***************************************************************************)
SuppliedIds == {Str("0")}
FieldValues == {Num(1), Num(2)}
NewDocs == {[a |-> Num(1)]} \cup {[_id |-> id, a |-> Num(1)] : id \in SuppliedIds}
Batches == UNION {[1..n -> NewDocs] : n \in 1..MaxBatch}
Queries == {EmptyDoc} \cup {[a |-> v] : v \in FieldValues}
Patches ==
  {[kind |-> k, fields |-> [a |-> Num(2)]] : k \in {"$set", "replace"}}
    \cup {[kind |-> "replace", fields |-> [_id |-> Str("9"), a |-> Num(3)]]}
UpdateOptions == {[NoOptions EXCEPT !.limit = l, !.upsert = u] : l \in {0, 1}, u \in BOOLEAN}
Watchers == {"w1", "w2"}
Callbacks == {"listen", "insert", "throw"}
CallbackDoc == [a |-> Num(1)]

(***************************************************************************)
(* Calls.  A client issues its calls from synchronous code, one after the  *)
(* other without waiting (back-to-back), or after the promises of the      *)
(* earlier calls have settled: a call is issued when no reaction of an     *)
(* earlier call has run yet or when none is left.                          *)
(***************************************************************************)
CanCall == \A i \in 1..Len(jobs) : jobs[i].stage = "sort"

\* a call of insert, by a client or by a subscriber callback
InsertCall(col, data) ==
  LET ins == Insert(col, data)
      r == RefInsert(col.ref, data)
  IN [ins.col EXCEPT !.opCount = @ + 1,
                     !.outcome = Append(@, IF ins.rejected THEN "rejected" ELSE "resolved"),
                     !.ref = r.ref,
                     !.refOutcome = Append(@, r.outcome)]

\* collection.insert(data): everything happens inside the call
InsertOp(data) ==
  /\ opCount < MaxOps
  /\ CanCall
  /\ SetCol(InsertCall(Col, data))
  /\ UNCHANGED <<watchers, jobs, subCount, firstSeen, lastFlush, probe, db>>

\* the promise chain find leaves behind: the filter has run inside the call,
\* the sort is the first reaction queued; selected is history, what find
\* without a limit selects on the store of the call
FindJob(op, query, replace, options) ==
  [call |-> opCount + 1, op |-> op, stage |-> "sort",
   results |-> FilterContent(heap, content, query),
   query |-> query, replace |-> replace, options |-> options,
   selected |-> FindAll(Col, query, [options EXCEPT !.limit = 0])]

\* collection.update(query, replace, options)
UpdateOp(query, replace, options) ==
  /\ opCount < MaxOps
  /\ CanCall
  /\ jobs' = Append(jobs, FindJob("update", query, replace, options))
  /\ opCount' = opCount + 1
  /\ outcome' = Append(outcome, "pending")
  /\ LET r == RefUpdate(ref, query, replace, options)
     IN ref' = r.ref /\ refOutcome' = Append(refOutcome, r.outcome)
  /\ UNCHANGED <<heap, content, lastId, changesToNotify, notifyTimeout, timers,
                 watchers, subCount, minted, generated, sinceNotify, affected,
                 latest, firstSeen, lastFlush, probe, db>>

\* collection.remove(query, { justOne })
RemoveOp(query, justOne) ==
  /\ opCount < MaxOps
  /\ CanCall
  /\ jobs' = Append(jobs, FindJob("remove", query, EmptyDoc, RemoveOptions(justOne)))
  /\ opCount' = opCount + 1
  /\ outcome' = Append(outcome, "pending")
  /\ LET r == RefRemove(ref, query, justOne)
     IN ref' = r.ref /\ refOutcome' = Append(refOutcome, r.outcome)
  /\ UNCHANGED <<heap, content, lastId, changesToNotify, notifyTimeout, timers,
                 watchers, subCount, minted, generated, sinceNotify, affected,
                 latest, firstSeen, lastFlush, probe, db>>

\* this._watchers.set(watcher, callback): a key already present keeps its place
MapSet(map, watcher, callback) ==
  IF \E i \in 1..Len(map) : map[i].watcher = watcher
  THEN [i \in 1..Len(map) |->
          IF map[i].watcher = watcher THEN [map[i] EXCEPT !.callback = callback]
          ELSE map[i]]
  ELSE Append(map, [watcher |-> watcher, callback |-> callback])

\* this._watchers.delete(watcher)
MapDelete(map, watcher) == SelectSeq(map, LAMBDA e : e.watcher # watcher)

MapHas(map, watcher) == \E i \in 1..Len(map) : map[i].watcher = watcher

\* collection.subscribe(watcher, callback)
Subscribe(watcher, callback) ==
  /\ subCount < MaxSubs
  /\ subCount' = subCount + 1
  /\ watchers' = MapSet(watchers, watcher, callback)
  /\ firstSeen' = IF watcher \in Range(firstSeen) THEN firstSeen
                  ELSE Append(firstSeen, watcher)
  /\ UNCHANGED <<colVars, jobs, lastFlush, probe, db>>

\* collection.unsubscribe(watcher), of a watcher that is subscribed
Unsubscribe(watcher) ==
  /\ subCount < MaxSubs
  /\ MapHas(watchers, watcher)
  /\ subCount' = subCount + 1
  /\ watchers' = MapDelete(watchers, watcher)
  /\ UNCHANGED <<colVars, jobs, firstSeen, lastFlush, probe, db>>

(***************************************************************************)
(* Promise reactions: the host runs the head of the queue.                 *)
(***************************************************************************)
Requeue(stage, results) ==
  jobs' = Append(Tail(jobs), [Head(jobs) EXCEPT !.stage = stage, !.results = results])

SortJob ==
  /\ jobs # <<>> /\ Head(jobs).stage = "sort"
  /\ Requeue("skip", SortStage(Head(jobs).results, heap, Head(jobs).options))
  /\ UNCHANGED <<colVars, watchers, subCount, firstSeen, lastFlush, probe, db>>

SkipJob ==
  /\ jobs # <<>> /\ Head(jobs).stage = "skip"
  /\ Requeue("limit", SkipStage(Head(jobs).results, Head(jobs).options))
  /\ UNCHANGED <<colVars, watchers, subCount, firstSeen, lastFlush, probe, db>>

LimitJob ==
  /\ jobs # <<>> /\ Head(jobs).stage = "limit"
  /\ Requeue("project", LimitStage(Head(jobs).results, Head(jobs).options))
  /\ UNCHANGED <<colVars, watchers, subCount, firstSeen, lastFlush, probe, db>>

\* update and remove pass no projection: the results go through unchanged
ProjectJob ==
  /\ jobs # <<>> /\ Head(jobs).stage = "project"
  /\ Requeue("then", Head(jobs).results)
  /\ UNCHANGED <<colVars, watchers, subCount, firstSeen, lastFlush, probe, db>>

Settle(col, call, how) == [col EXCEPT !.outcome[call] = how]

UpdateJob ==
  /\ jobs # <<>> /\ Head(jobs).stage = "then" /\ Head(jobs).op = "update"
  /\ LET job == Head(jobs)
         upd == UpdateThen(Col, job.results, job.query, job.replace, job.options)
     IN SetCol(Settle(upd.col, job.call, upd.outcome))
  /\ jobs' = Tail(jobs)
  /\ UNCHANGED <<watchers, subCount, firstSeen, lastFlush, probe, db>>

RemoveJob ==
  /\ jobs # <<>> /\ Head(jobs).stage = "then" /\ Head(jobs).op = "remove"
  /\ LET job == Head(jobs)
         rem == RemoveThen(Col, job.results)
     IN SetCol(Settle(rem.col, job.call, rem.outcome))
  /\ jobs' = Tail(jobs)
  /\ UNCHANGED <<watchers, subCount, firstSeen, lastFlush, probe, db>>

(***************************************************************************)
(* Time and the flush.  Time is observed by the timers alone, and the host *)
(* runs a timer callback only when no promise reaction is queued.          *)
(***************************************************************************)
Tick ==
  /\ jobs = <<>>
  /\ \E h \in DOMAIN timers : timers[h] > 0
  /\ timers' = [h \in DOMAIN timers |-> Max(0, timers[h] - TickLen)]
  /\ sinceNotify' = Min(Debounce, sinceNotify + TickLen)
  /\ UNCHANGED <<heap, content, lastId, changesToNotify, notifyTimeout, watchers,
                 jobs, opCount, subCount, outcome, minted, generated, affected,
                 latest, firstSeen, lastFlush, ref, refOutcome, probe, db>>

RECURSIVE Deliver(_, _, _, _)
\* this._watchers.forEach((callback, watcher) => callback.call(watcher,
\* this._changesToNotify)), then this._changesToNotify = [] unless a callback threw
Deliver(col, map, i, calls) ==
  IF i > Len(map)
  THEN [col |-> [col EXCEPT !.changesToNotify = <<>>], calls |-> calls,
        cleared |-> TRUE, atClear |-> col.changesToNotify]
  ELSE LET called == Append(calls, [watcher |-> map[i].watcher,
                                    callback |-> map[i].callback,
                                    payload |-> col.changesToNotify])
       IN CASE map[i].callback = "throw" ->
                 [col |-> col, calls |-> called, cleared |-> FALSE, atClear |-> <<>>]
            [] map[i].callback = "insert" /\ col.opCount < MaxOps ->
                 Deliver(InsertCall(col, <<CallbackDoc>>), map, i + 1, called)
            [] OTHER -> Deliver(col, map, i + 1, called)

\* the timer h fires: the host runs a timer callback when no reaction is queued
Flush(h) ==
  /\ h \in DOMAIN timers /\ timers[h] = 0
  /\ jobs = <<>>
  /\ LET d == Deliver([Col EXCEPT !.timers = ClearTimeout(@, h), !.affected = <<>>],
                      watchers, 1, <<>>)
     IN /\ SetCol(d.col)
        /\ lastFlush' = [happened |-> TRUE,
                         registry |-> [i \in 1..Len(watchers) |-> watchers[i].watcher],
                         calls |-> d.calls, cleared |-> d.cleared,
                         atClear |-> d.atClear, elapsed |-> sinceNotify,
                         due |-> affected]
  /\ UNCHANGED <<watchers, jobs, subCount, firstSeen, probe, db>>

\* the documents, the reactions and the clock, with no subscriber
Next ==
  \/ \E data \in Batches : InsertOp(data)
  \/ \E query \in Queries, replace \in Patches, options \in UpdateOptions :
       UpdateOp(query, replace, options)
  \/ \E query \in Queries, justOne \in BOOLEAN : RemoveOp(query, justOne)
  \/ SortJob
  \/ SkipJob
  \/ LimitJob
  \/ ProjectJob
  \/ UpdateJob
  \/ RemoveJob
  \/ Tick
  \/ \E h \in DOMAIN timers : Flush(h)

Spec == Init /\ [][Next]_vars

\* the notification subsystem: subscribers, whose callbacks listen, call
\* insert on the collection or throw, and a client that inserts one document,
\* updates the first match or removes the first document
WatchBatches == {<<CallbackDoc>>}
WatchOptions == [NoOptions EXCEPT !.limit = 1]

NextWatch ==
  \/ \E data \in WatchBatches : InsertOp(data)
  \/ \E replace \in Patches : UpdateOp([a |-> Num(1)], replace, WatchOptions)
  \/ RemoveOp(EmptyDoc, TRUE)
  \/ \E watcher \in Watchers, callback \in Callbacks : Subscribe(watcher, callback)
  \/ \E watcher \in Watchers : Unsubscribe(watcher)
  \/ SortJob
  \/ SkipJob
  \/ LimitJob
  \/ ProjectJob
  \/ UpdateJob
  \/ RemoveJob
  \/ Tick
  \/ \E h \in DOMAIN timers : Flush(h)

SpecWatch == Init /\ [][NextWatch]_vars

\* a timer has expired and the host is free to run its callback
FlushDue == jobs = <<>> /\ \E h \in DOMAIN timers : timers[h] = 0

\* the same, with the host's scheduling: a queued reaction runs, time passes
\* and an expired timer fires (weak fairness of the flush, written with its
\* enabling condition FlushDue)
FairWatch ==
  /\ SpecWatch
  /\ WF_vars(SortJob \/ SkipJob \/ LimitJob \/ ProjectJob \/ UpdateJob \/ RemoveJob)
  /\ WF_vars(Tick)
  /\ ([]<>(~FlushDue) \/ []<><<\E h \in DOMAIN timers : Flush(h)>>_vars)

(***************************************************************************)
(* The query functions on their own: find and findOne on a collection that *)
(* has just been filled by one insertMany, nothing else running between    *)
(* the steps of find.  A behaviour makes one call.                         *)
(***************************************************************************)
InitCol ==
  [heap |-> <<>>, content |-> <<>>, lastId |-> 0, changesToNotify |-> <<>>,
   notifyTimeout |-> NoTimer, timers |-> NoTimers, opCount |-> 0, outcome |-> <<>>,
   minted |-> <<>>, generated |-> <<>>, sinceNotify |-> 0, affected |-> <<>>,
   latest |-> NoLatest, ref |-> [docs |-> <<>>, lastId |-> 0], refOutcome |-> <<>>]

IsCol(c) ==
  /\ heap = c.heap
  /\ content = c.content
  /\ lastId = c.lastId
  /\ changesToNotify = c.changesToNotify
  /\ notifyTimeout = c.notifyTimeout
  /\ timers = c.timers
  /\ opCount = c.opCount
  /\ outcome = c.outcome
  /\ minted = c.minted
  /\ generated = c.generated
  /\ sinceNotify = c.sinceNotify
  /\ affected = c.affected
  /\ latest = c.latest
  /\ ref = c.ref
  /\ refOutcome = c.refOutcome

FindDocs == {[num |-> n, b |-> v] : n \in FieldValues, v \in FieldValues}
FindStores == UNION {[1..n -> FindDocs] : n \in 0..MaxDocs}
FindQueries ==
  {EmptyDoc, [num |-> Num(1)], [num |-> Obj("$gte" :> Num(2))]}
FindSorts ==
  {<<>>, <<<<"num", 1>>>>, <<<<"num", -1>>>>, <<<<"num", -1>>, <<"b", 1>>>>}
FindOptions ==
  {[NoOptions EXCEPT !.sort = s, !.skip = k, !.limit = l] :
     s \in FindSorts, k \in 0..MaxSkip, l \in 0..MaxLimit}
Projections ==
  {Undefined, Obj([num |-> Num(1)]), Obj([_id |-> Num(0), num |-> Num(1)]),
   Obj([_id |-> Num(1), b |-> Num(0)]), Obj([c |-> Bool(TRUE)])}

StoredNow == [i \in 1..Len(content) |-> heap[content[i]]]

InitFind ==
  /\ \E docs \in FindStores : IsCol(InsertCall(InitCol, docs))
  /\ watchers = <<>>
  /\ jobs = <<>>
  /\ subCount = 0
  /\ firstSeen = <<>>
  /\ lastFlush = NoFlush
  /\ probe = NoProbe
  /\ db = NoDb

\* collection.find(query, projection, options), to its resolution
FindCall(query, projection, options) ==
  /\ probe.fn = "none"
  /\ probe' = [fn |-> "find", docs |-> [i \in 1..Len(content) |-> heap[content[i]]],
               query |-> query, projection |-> projection, options |-> options,
               result |-> Find(Col, query, projection, options)]
  /\ UNCHANGED <<colVars, watchers, jobs, subCount, firstSeen, lastFlush, db>>

\* collection.findOne(query, projection, options), to its resolution
FindOneCall(query, projection, options) ==
  /\ probe.fn = "none"
  /\ probe' = [fn |-> "findOne", docs |-> [i \in 1..Len(content) |-> heap[content[i]]],
               query |-> query, projection |-> projection, options |-> options,
               result |-> FindOne(Col, query, projection, options)]
  /\ UNCHANGED <<colVars, watchers, jobs, subCount, firstSeen, lastFlush, db>>

NextFind ==
  \/ \E query \in FindQueries, projection \in Projections, options \in FindOptions :
       FindCall(query, projection, options)
  \/ \E query \in FindQueries, projection \in Projections, options \in FindOptions :
       FindOneCall(query, projection, options)

SpecFind == InitFind /\ [][NextFind]_vars

(***************************************************************************)
(* The read functions and the store: find, findOne or count called on a    *)
(* collection that has just been filled, then the same call once more.     *)
(***************************************************************************)
\* find that filters and sorts this._content itself
FindSortsContent(col, query, projection, options) ==
  [col EXCEPT !.content = SortStage(FilterContent(col.heap, @, query), col.heap, options)]

\* the collection after find: filter returns a new array, sort and splice
\* work on that array, the projection builds new objects
FindEffect(col, query, projection, options) == col

\* count(): this._content.length
Count(col) == Num(Len(col.content))

ReadFunctions == {"find", "findOne", "count"}

\* what the promise of a read function resolves to
ReadResult(col, fn, query, projection, options) ==
  CASE fn = "find" -> Find(col, query, projection, options)
    [] fn = "findOne" -> FindOne(col, query, projection, options)
    [] fn = "count" -> Count(col)

\* the collection after a read function; findOne is a call of find
ReadEffect(col, fn, query, projection, options) ==
  CASE fn = "find" -> FindEffect(col, query, projection, options)
    [] fn = "findOne" -> FindEffect(col, query, projection, [options EXCEPT !.limit = 1])
    [] fn = "count" -> col

\* the first call of a read function, awaited
ReadCall(fn, query, projection, options) ==
  /\ probe.fn = "none"
  /\ SetCol(ReadEffect(Col, fn, query, projection, options))
  /\ probe' = [fn |-> fn, docs |-> StoredNow, query |-> query,
               projection |-> projection, options |-> options,
               result |-> ReadResult(Col, fn, query, projection, options),
               repeated |-> FALSE, again |-> Undefined]
  /\ UNCHANGED <<watchers, jobs, subCount, firstSeen, lastFlush, db>>

\* the same call with the same arguments, nothing else called in between
RepeatCall ==
  /\ probe.fn \in ReadFunctions
  /\ ~probe.repeated
  /\ SetCol(ReadEffect(Col, probe.fn, probe.query, probe.projection, probe.options))
  /\ probe' = [probe EXCEPT !.repeated = TRUE,
                            !.again = ReadResult(Col, probe.fn, probe.query,
                                                 probe.projection, probe.options)]
  /\ UNCHANGED <<watchers, jobs, subCount, firstSeen, lastFlush, db>>

NextRead ==
  \/ \E fn \in {"find", "findOne"}, query \in FindQueries, projection \in Projections,
        options \in FindOptions : ReadCall(fn, query, projection, options)
  \/ ReadCall("count", EmptyDoc, Undefined, NoOptions)
  \/ RepeatCall

SpecRead == InitFind /\ [][NextRead]_vars

(***************************************************************************)
(* Upserts alone: on a new collection a client calls update with upsert    *)
(* for one criteria, awaited or back-to-back.                              *)
(***************************************************************************)
UpsertQuery == [a |-> Num(2)]
UpsertOptions == [NoOptions EXCEPT !.upsert = TRUE]
UpsertPatches == {p \in Patches : ElementIsValidForQuery(Modify(UpsertQuery, p), UpsertQuery)}

NextUpsert ==
  \/ \E replace \in UpsertPatches : UpdateOp(UpsertQuery, replace, UpsertOptions)
  \/ SortJob
  \/ SkipJob
  \/ LimitJob
  \/ ProjectJob
  \/ UpdateJob
  \/ Tick
  \/ \E h \in DOMAIN timers : Flush(h)

SpecUpsert == Init /\ [][NextUpsert]_vars

(***************************************************************************)
(* The matcher on its own: _elementIsValidForQuery applied to one element  *)
(* and one query.  A behaviour makes one call.                             *)
(***************************************************************************)
FalsyValues == {Null, Num(0), Bool(FALSE), Str("")}
MatchValues == {Num(1), Num(2), Str("x")} \cup FalsyValues
Comparisons == {"$lte", "$lt", "$gte", "$gt", "$ne", "$eq"}
Operands == {Num(1), Str("x")}
Lists == {Arr(<<Num(1)>>), Arr(<<Num(2), Str("x")>>)}

\* the sub-queries of one field: a literal, or a mapping of one or two operators
SubQueries ==
  MatchValues
    \cup {Obj(op :> v) : op \in Comparisons, v \in Operands}
    \cup {Obj(op :> l) : op \in {"$in", "$nin"}, l \in Lists}
    \cup {Obj(("$gte" :> Num(1)) @@ ("$lte" :> Num(2))),
          Obj(("$ne" :> Num(1)) @@ ("$in" :> Arr(<<Num(1), Num(2)>>)))}
    \cup {Obj("$exists" :> Bool(b)) : b \in BOOLEAN}

MatchQueries ==
  {q \in UNION {[fs -> SubQueries] : fs \in SUBSET {"a", "b"}} :
     "b" \in DOMAIN q => q["b"] \in {Num(1), Obj("$exists" :> Bool(TRUE)),
                                     Obj("$exists" :> Bool(FALSE))}}

MatchElements ==
  {e \in UNION {[fs -> MatchValues] : fs \in SUBSET {"a", "b"}} :
     "b" \in DOMAIN e => e["b"] = Num(1)}

\* collection._elementIsValidForQuery(elementToTest, query)
MatchCall(elementToTest, query) ==
  /\ probe.fn = "none"
  /\ probe' = [fn |-> "matches", docs |-> <<elementToTest>>, query |-> query,
               projection |-> Undefined, options |-> NoOptions,
               result |-> Bool(ElementIsValidForQuery(elementToTest, query))]
  /\ UNCHANGED <<colVars, watchers, jobs, subCount, firstSeen, lastFlush, db>>

NextMatch ==
  \E elementToTest \in MatchElements, query \in MatchQueries :
    MatchCall(elementToTest, query)

SpecMatch == Init /\ [][NextMatch]_vars

(***************************************************************************)
(* The comparator on its own, and find with a sort on documents of mixed   *)
(* values: _orderByManyProperties applied to two documents, or one find on *)
(* a collection that has just been filled.  A behaviour makes one call.    *)
(***************************************************************************)
OrderValues == {Num(1), Num(2), Str("x")}
OrderDocs ==
  {[num |-> v, str |-> w] : v \in OrderValues, w \in {Str("x"), Str("y")}}
    \cup {[str |-> w] : w \in {Str("x"), Str("y")}}
OrderStores == UNION {[1..n -> OrderDocs] : n \in 0..MaxDocs}
OrderSorts ==
  {<<<<"num", 1>>>>, <<<<"num", -1>>>>, <<<<"num", 1>>, <<"str", -1>>>>,
   <<<<"str", 2>>, <<"num", -2>>>>}

InitOrder ==
  /\ \E docs \in OrderStores : IsCol(InsertCall(InitCol, docs))
  /\ watchers = <<>>
  /\ jobs = <<>>
  /\ subCount = 0
  /\ firstSeen = <<>>
  /\ lastFlush = NoFlush
  /\ probe = NoProbe
  /\ db = NoDb

\* collection._orderByManyProperties(a, b, sort, Object.keys(sort), 0)
CompareCall(a, b, sort) ==
  /\ probe.fn = "none"
  /\ probe' = [fn |-> "compare", docs |-> <<a, b>>, query |-> EmptyDoc,
               projection |-> Undefined, options |-> [NoOptions EXCEPT !.sort = sort],
               result |-> Num(OrderByManyProperties(a, b, sort, 1))]
  /\ UNCHANGED <<colVars, watchers, jobs, subCount, firstSeen, lastFlush, db>>

NextOrder ==
  \/ \E a \in OrderDocs, b \in OrderDocs, sort \in OrderSorts : CompareCall(a, b, sort)
  \/ \E sort \in OrderSorts : FindCall(EmptyDoc, Undefined, [NoOptions EXCEPT !.sort = sort])

SpecOrder == InitOrder /\ [][NextOrder]_vars

(***************************************************************************)
(* The checks of the arguments: insert, insertOne, insertMany, find and    *)
(* update called with a document, an array of documents or something that  *)
(* is neither.  An argument is a host value: Obj(d) a document, a query or  *)
(* a patch, Arr(b) an array of documents.                                  *)
(***************************************************************************)
\* typeof v === 'object': objects, arrays and null
TypeofObject(v) == v[1] \in {"object", "array", "null"}

\* Array.isArray(v)
IsArray(v) == v[1] = "array"

Rejected(col) == [col |-> col, rejected |-> TRUE]

\* insert(data) for any data: rejected by the typeof check; for null the
\* forEach reads null._id, the TypeError inside the executor rejects
InsertArg(col, data) ==
  IF ~TypeofObject(data) THEN Rejected(col)
  ELSE IF data = Null THEN Rejected(col)
  ELSE Insert(col, IF IsArray(data) THEN data[2] ELSE <<data[2]>>)

\* insertOne(data)
InsertOneArg(col, data) ==
  IF ~TypeofObject(data) THEN Rejected(col)
  ELSE IF IsArray(data) THEN Rejected(col)
  ELSE InsertArg(col, data)

\* insertMany(data)
InsertManyArg(col, data) ==
  IF ~IsArray(data) THEN Rejected(col) ELSE InsertArg(col, data)

ArgData ==
  {Undefined, Null, Str("s")} \cup {Obj(d) : d \in NewDocs} \cup {Arr(b) : b \in Batches}
ArgQueries == {Str("not a query"), Null, Obj(EmptyDoc), Obj([a |-> Num(2)])}
ArgPatches == {Undefined, Str("not a replacement")} \cup {Obj(p) : p \in Patches}
ArgOptions == {[NoOptions EXCEPT !.upsert = u] : u \in BOOLEAN}

\* a call of insert, insertOne or insertMany; the promise of insertMany on
\* an array is settled by the reactions of insert(data).then(resolve).catch(reject)
InsertFamilyCall(fn, data) ==
  /\ opCount < MaxOps
  /\ CanCall
  /\ LET ins == CASE fn = "insert" -> InsertArg(Col, data)
                  [] fn = "insertOne" -> InsertOneArg(Col, data)
                  [] fn = "insertMany" -> InsertManyArg(Col, data)
         chained == fn = "insertMany" /\ IsArray(data)
         how == IF chained THEN "pending"
                ELSE IF ins.rejected THEN "rejected" ELSE "resolved"
     IN /\ SetCol([ins.col EXCEPT !.opCount = @ + 1, !.outcome = Append(@, how)])
        /\ jobs' = IF chained
                   THEN Append(jobs, [call |-> opCount + 1, op |-> "insertMany",
                                      stage |-> "resolve", rejected |-> ins.rejected])
                   ELSE jobs
  /\ probe' = [fn |-> fn, arg |-> data, replace |-> Undefined, options |-> NoOptions,
               call |-> opCount + 1]
  /\ UNCHANGED <<watchers, subCount, firstSeen, lastFlush, db>>

\* the reaction of .then(resolve): it resolves, or passes the rejection on
ResolveJob ==
  /\ jobs # <<>> /\ Head(jobs).stage = "resolve"
  /\ IF Head(jobs).rejected
     THEN /\ jobs' = Append(Tail(jobs), [Head(jobs) EXCEPT !.stage = "reject"])
          /\ UNCHANGED colVars
     ELSE /\ jobs' = Tail(jobs)
          /\ SetCol(Settle(Col, Head(jobs).call, "resolved"))
  /\ UNCHANGED <<watchers, subCount, firstSeen, lastFlush, probe, db>>

\* the reaction of .catch(reject)
RejectJob ==
  /\ jobs # <<>> /\ Head(jobs).stage = "reject"
  /\ jobs' = Tail(jobs)
  /\ SetCol(Settle(Col, Head(jobs).call, "rejected"))
  /\ UNCHANGED <<watchers, subCount, firstSeen, lastFlush, probe, db>>

\* find(query) for any query, to the end of its promise: rejected by the
\* typeof check; for null the filter calls Object.keys(null) on the first
\* stored document and find throws; it stores nothing
FindArg(query) ==
  /\ opCount < MaxOps
  /\ CanCall
  /\ opCount' = opCount + 1
  /\ outcome' = Append(outcome,
                   IF ~TypeofObject(query) THEN "rejected"
                   ELSE IF query = Null /\ content # <<>> THEN "thrown"
                   ELSE "resolved")
  /\ probe' = [fn |-> "find", arg |-> query, replace |-> Undefined,
               options |-> NoOptions, call |-> opCount + 1]
  /\ UNCHANGED <<heap, content, lastId, changesToNotify, notifyTimeout, timers,
                 watchers, jobs, subCount, minted, generated, sinceNotify, affected,
                 latest, firstSeen, lastFlush, ref, refOutcome, db>>

\* update(query, replace, options) for any query and replace: rejected by
\* the typeof check of replace; for a query find rejects, the rejection
\* goes down the chain of update, which has no handler for it, and neither
\* resolve nor reject is ever called
UpdateArg(query, replace, options) ==
  /\ probe' = [fn |-> "update", arg |-> query, replace |-> replace,
               options |-> options, call |-> opCount + 1]
  /\ IF ~TypeofObject(replace) \/ ~TypeofObject(query)
     THEN /\ opCount < MaxOps
          /\ CanCall
          /\ opCount' = opCount + 1
          /\ outcome' = Append(outcome,
                           IF ~TypeofObject(replace) THEN "rejected" ELSE "pending")
          /\ UNCHANGED <<heap, content, lastId, changesToNotify, notifyTimeout, timers,
                         watchers, jobs, subCount, minted, generated, sinceNotify,
                         affected, latest, firstSeen, lastFlush, ref, refOutcome, db>>
     ELSE /\ opCount < MaxOps
          /\ CanCall
          /\ jobs' = Append(jobs, FindJob("update", query[2], replace[2], options))
          /\ opCount' = opCount + 1
          /\ outcome' = Append(outcome, "pending")
          /\ UNCHANGED <<heap, content, lastId, changesToNotify, notifyTimeout, timers,
                         watchers, subCount, minted, generated, sinceNotify, affected,
                         latest, firstSeen, lastFlush, ref, refOutcome, db>>

NextArgs ==
  \/ \E fn \in {"insert", "insertOne", "insertMany"}, data \in ArgData :
       InsertFamilyCall(fn, data)
  \/ \E query \in ArgQueries : FindArg(query)
  \/ \E query \in ArgQueries \ {Null}, replace \in ArgPatches, options \in ArgOptions :
       UpdateArg(query, replace, options)
  \/ ResolveJob
  \/ RejectJob
  \/ SortJob
  \/ SkipJob
  \/ LimitJob
  \/ ProjectJob
  \/ UpdateJob

SpecArgs == Init /\ [][NextArgs]_vars

(***************************************************************************)
(* The registry on its own: subscribe and unsubscribe called with a        *)
(* watcher and a callback, or without one of them.                         *)
(***************************************************************************)
\* an argument that is not given (undefined or null)
Missing == "missing"

\* unsubscribe that deletes without testing that the watcher is subscribed
UnsubscribeSilently(map, watcher) ==
  [map |-> MapDelete(map, watcher), threw |-> FALSE]

\* unsubscribe(watcher): the registry after the call and whether it threw
UnsubscribeArg(map, watcher) ==
  IF MapHas(map, watcher)
  THEN [map |-> MapDelete(map, watcher), threw |-> FALSE]
  ELSE [map |-> map, threw |-> TRUE]

\* subscribe(watcher, callback): the registry after the call and whether it threw
SubscribeArg(map, watcher, callback) ==
  IF watcher # Missing /\ callback # Missing
  THEN [map |-> MapSet(map, watcher, callback), threw |-> FALSE]
  ELSE [map |-> map, threw |-> TRUE]

SubscribeCall(watcher, callback) ==
  /\ subCount < MaxSubs
  /\ subCount' = subCount + 1
  /\ LET sub == SubscribeArg(watchers, watcher, callback)
     IN /\ watchers' = sub.map
        /\ firstSeen' = IF sub.threw \/ watcher \in Range(firstSeen) THEN firstSeen
                        ELSE Append(firstSeen, watcher)
        /\ probe' = [fn |-> "subscribe", arg |-> watcher, callback |-> callback,
                     threw |-> sub.threw]
  /\ UNCHANGED <<colVars, jobs, lastFlush, db>>

UnsubscribeCall(watcher) ==
  /\ subCount < MaxSubs
  /\ subCount' = subCount + 1
  /\ LET unsub == UnsubscribeArg(watchers, watcher)
     IN /\ watchers' = unsub.map
        /\ probe' = [fn |-> "unsubscribe", arg |-> watcher, callback |-> Missing,
                     threw |-> unsub.threw]
  /\ UNCHANGED <<colVars, jobs, firstSeen, lastFlush, db>>

NextSubs ==
  \/ \E watcher \in Watchers \cup {Missing}, callback \in Callbacks \cup {Missing} :
       SubscribeCall(watcher, callback)
  \/ \E watcher \in Watchers \cup {Missing} : UnsubscribeCall(watcher)

SpecSubs == Init /\ [][NextSubs]_vars

(***************************************************************************)
(* The database (ReactiveDatabase): this.collections is a plain object,    *)
(* here the sequence of its own properties in the order of their creation; *)
(* a name it does not own is looked up in Object.prototype.  db.stores     *)
(* holds the collections constructed, db.handles what getCollection has    *)
(* returned to the client.                                                 *)
(***************************************************************************)
CollectionNames == {"my-col", "users", "constructor"}

\* the names of the model that every plain object inherits
InheritedNames == CollectionNames \cap {"constructor", "toString", "valueOf"}

\* this.collections[name]
Lookup(d, name) ==
  IF \E i \in 1..Len(d.collections) : d.collections[i].name = name
  THEN LET i == CHOOSE i \in 1..Len(d.collections) : d.collections[i].name = name
       IN <<"collection", d.collections[i].instance>>
  ELSE IF name \in InheritedNames THEN <<"inherited", 0>>
       ELSE Undefined

\* getCollection(name): the database after the call and what it returns
GetCollection(d, name) ==
  IF Lookup(d, name)[1] = "undefined"
  THEN LET instance == Len(d.stores) + 1
       IN [db |-> [d EXCEPT !.collections =
                               Append(@, [name |-> name, instance |-> instance]),
                             !.stores = Append(@, InitCol)],
           returned |-> <<"collection", instance>>]
  ELSE [db |-> d, returned |-> Lookup(d, name)]

\* showCollections(): Object.keys(this.collections)
ShowCollections(d) == [i \in 1..Len(d.collections) |-> d.collections[i].name]

\* const handle = db.getCollection(name)
GetCollectionCall(name) ==
  /\ Len(db.handles) < MaxGets
  /\ LET got == GetCollection(db, name)
     IN db' = [got.db EXCEPT !.handles =
                               Append(@, [name |-> name, returned |-> got.returned])]
  /\ UNCHANGED <<colVars, watchers, jobs, subCount, firstSeen, lastFlush, probe>>

\* handle.insert({a: 1}) through the handle of a collection
InsertThrough(i) ==
  /\ i \in 1..Len(db.handles)
  /\ db.handles[i].returned[1] = "collection"
  /\ LET instance == db.handles[i].returned[2]
     IN /\ db.stores[instance].opCount < MaxBatch
        /\ db' = [db EXCEPT !.stores[instance] = InsertCall(@, <<CallbackDoc>>)]
  /\ UNCHANGED <<colVars, watchers, jobs, subCount, firstSeen, lastFlush, probe>>

NextDb ==
  \/ \E name \in CollectionNames : GetCollectionCall(name)
  \/ \E i \in 1..MaxGets : InsertThrough(i)

SpecDb == Init /\ [][NextDb]_vars

(***************************************************************************)
(* remove on its own: one remove, with the options of the caller, on a     *)
(* collection that has just been filled, and the reactions it queues.      *)
(***************************************************************************)
RemovalOptions == {[justOne |-> j, sort |-> s] : j \in BOOLEAN, s \in FindSorts}

\* remove that hands find the caller's sort next to the limit
RemoveKeepsSort(options) ==
  [RemoveOptions(options.justOne) EXCEPT !.sort = options.sort]

\* options.justOne ? { limit: 1 } : undefined: of the caller's options remove
\* reads justOne alone
RemoveFindOptions(options) == RemoveOptions(options.justOne)

\* collection.remove(query, options)
RemoveCall(query, options) ==
  /\ probe.fn = "none"
  /\ jobs' = Append(jobs, FindJob("remove", query, EmptyDoc, RemoveFindOptions(options)))
  /\ opCount' = opCount + 1
  /\ outcome' = Append(outcome, "pending")
  /\ LET r == RefRemove(ref, query, options.justOne)
     IN ref' = r.ref /\ refOutcome' = Append(refOutcome, r.outcome)
  /\ probe' = [fn |-> "remove", docs |-> StoredNow, query |-> query,
               options |-> options, call |-> opCount + 1]
  /\ UNCHANGED <<heap, content, lastId, changesToNotify, notifyTimeout, timers,
                 watchers, subCount, minted, generated, sinceNotify, affected,
                 latest, firstSeen, lastFlush, db>>

NextRemove ==
  \/ \E query \in FindQueries, options \in RemovalOptions : RemoveCall(query, options)
  \/ SortJob
  \/ SkipJob
  \/ LimitJob
  \/ ProjectJob
  \/ RemoveJob

SpecRemove == InitFind /\ [][NextRemove]_vars

(***************************************************************************)
(* update with upsert on its own: one call, with the options find reads,   *)
(* on a collection that has just been filled, and the reactions it queues. *)
(***************************************************************************)
UpsertFindOptions == {[o EXCEPT !.upsert = TRUE] : o \in FindOptions}

\* collection.update(query, replace, { sort, skip, limit, upsert: true })
UpsertCall(query, replace, options) ==
  /\ probe.fn = "none"
  /\ jobs' = Append(jobs, FindJob("update", query, replace, options))
  /\ opCount' = opCount + 1
  /\ outcome' = Append(outcome, "pending")
  /\ LET r == RefUpdate(ref, query, replace, options)
     IN ref' = r.ref /\ refOutcome' = Append(refOutcome, r.outcome)
  /\ probe' = [fn |-> "update", docs |-> StoredNow, query |-> query,
               replace |-> replace, options |-> options, call |-> opCount + 1]
  /\ UNCHANGED <<heap, content, lastId, changesToNotify, notifyTimeout, timers,
                 watchers, subCount, minted, generated, sinceNotify, affected,
                 latest, firstSeen, lastFlush, db>>

NextUpsertOptions ==
  \/ \E query \in FindQueries, replace \in Patches, options \in UpsertFindOptions :
       UpsertCall(query, replace, options)
  \/ SortJob
  \/ SkipJob
  \/ LimitJob
  \/ ProjectJob
  \/ UpdateJob

SpecUpsertOptions == InitFind /\ [][NextUpsertOptions]_vars

(***************************************************************************)
(* Subscribing late: the notification subsystem with a record of what was  *)
(* pending when the last watcher subscribed: the buffer and the outcomes   *)
(* of the calls made so far.                                               *)
(***************************************************************************)
\* a subscribe that empties the pending buffer, so that the new watcher is
\* handed what is produced from then on
SubscribeFresh(watcher, callback) ==
  /\ subCount < MaxSubs
  /\ ~MapHas(watchers, watcher)
  /\ subCount' = subCount + 1
  /\ watchers' = MapSet(watchers, watcher, callback)
  /\ firstSeen' = IF watcher \in Range(firstSeen) THEN firstSeen
                  ELSE Append(firstSeen, watcher)
  /\ probe' = [fn |-> "subscribe", watcher |-> watcher,
               pending |-> changesToNotify, outcome |-> outcome]
  /\ SetCol([Col EXCEPT !.changesToNotify = <<>>])
  /\ UNCHANGED <<jobs, lastFlush, db>>

\* collection.subscribe(watcher, callback) by a watcher that is not subscribed
SubscribeLate(watcher, callback) ==
  /\ subCount < MaxSubs
  /\ ~MapHas(watchers, watcher)
  /\ subCount' = subCount + 1
  /\ watchers' = MapSet(watchers, watcher, callback)
  /\ firstSeen' = IF watcher \in Range(firstSeen) THEN firstSeen
                  ELSE Append(firstSeen, watcher)
  /\ probe' = [fn |-> "subscribe", watcher |-> watcher,
               pending |-> changesToNotify, outcome |-> outcome]
  /\ UNCHANGED <<colVars, jobs, lastFlush, db>>

NextLate ==
  \/ \E data \in WatchBatches : InsertOp(data)
  \/ \E replace \in Patches : UpdateOp([a |-> Num(1)], replace, WatchOptions)
  \/ RemoveOp(EmptyDoc, TRUE)
  \/ \E watcher \in Watchers, callback \in Callbacks : SubscribeLate(watcher, callback)
  \/ \E watcher \in Watchers : Unsubscribe(watcher)
  \/ SortJob
  \/ SkipJob
  \/ LimitJob
  \/ ProjectJob
  \/ UpdateJob
  \/ RemoveJob
  \/ Tick
  \/ \E h \in DOMAIN timers : Flush(h)

SpecLate == Init /\ [][NextLate]_vars

(***************************************************************************)
(* Properties.                                                             *)
(***************************************************************************)
StoredIds == [i \in 1..Len(content) |-> Get(heap[content[i]], "_id")]

StoredDocs == [i \in 1..Len(content) |-> heap[content[i]]]

IdsOf(changes) == [i \in 1..Len(changes) |-> changes[i]._id]

NoRepeat(seq) == \A i, j \in 1..Len(seq) : i # j => seq[i] # seq[j]

LastOutcome(o) == o[Len(o)]

\* C1: whatever calls of insert, update and remove have been made, no two
\* stored documents have the same _id
UniqueStoredIds == NoRepeat(StoredIds)

HasStoredId(data) ==
  \E i \in 1..Len(data) :
    HasOwn(data[i], "_id") /\ FindIndexById(Col, data[i]._id) > 0

\* C2: an insert whose batch holds a document with an _id that is already
\* stored rejects, and leaves the stored documents and their order, the
\* pending changes and the debounce timer as they were
DuplicateInsertRejected ==
  [][\A data \in Batches :
       (InsertOp(data) /\ HasStoredId(data)) =>
         /\ LastOutcome(outcome') = "rejected"
         /\ content' = content
         /\ heap' = heap
         /\ changesToNotify' = changesToNotify
         /\ notifyTimeout' = notifyTimeout
         /\ timers' = timers]_vars

\* C2, its case: an insert has been rejected while documents were stored,
\* changes were pending and the timer was armed
DuplicateInsertRejectedCase ==
  /\ \E i \in 1..Len(outcome) : outcome[i] = "rejected"
  /\ content # <<>>
  /\ changesToNotify # <<>>
  /\ notifyTimeout \in DOMAIN timers

\* C3: once every promise has settled, the stored documents and the outcome
\* of each call are those of the run in which each call is completed before
\* the next one is issued
SameAsOneAfterTheOther ==
  jobs = <<>> => (StoredDocs = ref.docs /\ outcome = refOutcome)

WatchersOf(calls) == [i \in 1..Len(calls) |-> calls[i].watcher]

\* C4: at most one debounce timer is armed; a flush comes a full debounce
\* window after the last mutation, invokes every subscriber once, and its
\* payload lists the ids affected since the flush before it in the order in
\* which each was last affected
OneCallbackPerRun ==
  /\ Cardinality(DOMAIN timers) <= 1
  /\ lastFlush.happened =>
       /\ lastFlush.elapsed >= Debounce
       /\ WatchersOf(lastFlush.calls) = lastFlush.registry
       /\ \A i \in 1..Len(lastFlush.calls) :
            IdsOf(lastFlush.calls[i].payload) = lastFlush.due

\* C5: in a flush that clears the buffer, every subscriber has received the
\* same payload, and every change the flush clears has been delivered to
\* every subscriber
FlushDeliversAllToAll ==
  (lastFlush.happened /\ lastFlush.cleared) =>
    /\ WatchersOf(lastFlush.calls) = lastFlush.registry
    /\ \A i \in 1..Len(lastFlush.calls) :
         /\ lastFlush.calls[i].payload = lastFlush.calls[1].payload
         /\ Range(lastFlush.atClear) \subseteq Range(lastFlush.calls[i].payload)

\* C6: a flush invokes every watcher of the registry exactly once, in the
\* order of the watchers' first subscribe, and no watcher that has
\* unsubscribed
FlushInvokesRegistryInOrder ==
  lastFlush.happened =>
    WatchersOf(lastFlush.calls) =
      SelectSeq(firstSeen, LAMBDA w : w \in Range(lastFlush.registry))

\* C7: every pending change of kind insert or update carries a fullDocument
\* and every pending change of kind remove carries none
FullDocumentByKind ==
  \A i \in 1..Len(changesToNotify) :
    (changesToNotify[i].operationType \in {"insert", "update"})
      <=> (changesToNotify[i].fullDocument # NoDocument)

\* C8: the pending buffer holds at most one change per _id, the one built by
\* the last notifying operation that affected the id
OnePendingChangePerId ==
  /\ NoRepeat(IdsOf(changesToNotify))
  /\ \A i \in 1..Len(changesToNotify) :
       changesToNotify[i] = latest[changesToNotify[i]._id]

Idle == changesToNotify = <<>> /\ DOMAIN timers = {}

\* C9: pending changes lead to the idle collection: the buffer is empty and
\* no timer is armed
PendingLeadsToIdle == (changesToNotify # <<>>) ~> Idle

\* C10: the k-th stored document that was inserted without _id has the
\* decimal string of k-1 as its _id
MintedIdsAreSuccessive ==
  \A k \in 1..Len(minted) : minted[k] = Str(Decimal(k - 1))

\* C11: the id counter never decreases, and every string the id generator
\* returns differs from every string it returned before
CounterNeverReused == [][lastId' >= lastId /\ NoRepeat(generated')]_vars

\* C11, its case: a document that held a minted id has been removed, and an
\* id has been minted and stored after that
MintAfterRemoveCase ==
  /\ Len(generated) >= 2
  /\ \E i, j \in 1..Len(changesToNotify) :
       /\ i < j
       /\ changesToNotify[i].operationType = "remove"
       /\ changesToNotify[i]._id = generated[1]
       /\ changesToNotify[j].operationType = "insert"
       /\ changesToNotify[j]._id = generated[Len(generated)]

\* a comes strictly before b under the sort specification: on the first key
\* on which they differ, a is the smaller for a positive direction and the
\* greater for a negative one
Precedes(a, b, sort) ==
  \E k \in 1..Len(sort) :
    /\ \A j \in 1..(k - 1) : Get(a, sort[j][1]) = Get(b, sort[j][1])
    /\ IF sort[k][2] > 0
       THEN JsLess(Get(a, sort[k][1]), Get(b, sort[k][1]))
       ELSE JsLess(Get(b, sort[k][1]), Get(a, sort[k][1]))

Orders(n) == {f \in [1..n -> 1..n] : \A i, j \in 1..n : i # j => f[i] # f[j]}

\* the view of a document under a projection
ProjectedView(doc, projection) ==
  IF projection = Undefined THEN doc
  ELSE LET flags == projection[2]
           idOut == "_id" \in DOMAIN flags /\ ~Truthy(flags["_id"])
       IN [k \in {f \in DOMAIN flags \cup {"_id"} :
                    IF f = "_id" THEN ~idOut ELSE Truthy(flags[f])} |-> Get(doc, k)]

\* the matching documents of docs taken in the given order, skip dropped,
\* limit kept, each projected
FindOutcome(docs, query, projection, options, order) ==
  LET all == [i \in 1..Len(docs) |-> i]
      matching == SelectSeq(all, LAMBDA i : ElementIsValidForQuery(docs[i], query))
      from == IF options.skip > 0 THEN options.skip ELSE 0
      rest == Max(0, Len(matching) - from)
      count == IF options.limit > 0 THEN Min(options.limit, rest) ELSE rest
  IN [i \in 1..count |-> ProjectedView(docs[matching[order[from + i]]], projection)]

\* the orders find may return the n matching documents in: store order
\* without sort keys, any fully sorted order with them
SortedOrders(docs, query, sort) ==
  LET all == [i \in 1..Len(docs) |-> i]
      matching == SelectSeq(all, LAMBDA i : ElementIsValidForQuery(docs[i], query))
      n == Len(matching)
  IN {f \in Orders(n) :
        IF sort = <<>> THEN \A i \in 1..n : f[i] = i
        ELSE \A i, j \in 1..n :
               i < j => ~Precedes(docs[matching[f[j]]], docs[matching[f[i]]], sort)}

\* C12: find returns the matching stored documents, in store order or fully
\* sorted by options.sort when it has a key, without the first options.skip
\* of them, truncated to options.limit, each reduced by the projection;
\* skip is applied before limit
FindReturnsPipeline ==
  probe.fn = "find" =>
    \E order \in SortedOrders(probe.docs, probe.query, probe.options.sort) :
      probe.result =
        FindOutcome(probe.docs, probe.query, probe.projection, probe.options, order)

\* C12, its case: a find with two sort keys, a skip, a limit and a projection
\* without _id has returned two documents out of three matching ones
FindReturnsPipelineCase ==
  /\ probe.fn = "find"
  /\ Len(probe.options.sort) = 2
  /\ probe.options.skip = 1
  /\ probe.options.limit = 2
  /\ probe.projection = Obj([_id |-> Num(0), num |-> Num(1)])
  /\ Len(probe.docs) = 3
  /\ probe.result = <<[num |-> Num(2)], [num |-> Num(1)]>>

\* C13: findOne resolves to the first element of find under the caller's
\* options with limit replaced by 1, and to no value when there is none
FindOneIsFirstOfFind ==
  probe.fn = "findOne" =>
    \E order \in SortedOrders(probe.docs, probe.query, probe.options.sort) :
      LET one == FindOutcome(probe.docs, probe.query, probe.projection,
                             [probe.options EXCEPT !.limit = 1], order)
      IN /\ Len(one) <= 1
         /\ probe.result = IF one = <<>> THEN Undefined ELSE Obj(one[1])

\* C13, its case: a findOne called with limit 2, a skip and a sort has
\* resolved to a document that is not the first of the store
FindOneIsFirstOfFindCase ==
  /\ probe.fn = "findOne"
  /\ probe.options.limit = 2
  /\ probe.options.skip = 1
  /\ probe.options.sort = <<<<"num", -1>>>>
  /\ probe.projection = Undefined
  /\ Len(probe.docs) = 3
  /\ probe.result[1] = "object"
  /\ probe.result # Obj(probe.docs[1])

\* the documents an update job is to patch: the selection of the call, its
\* first document for updateOne (limit 1)
ToPatch(job) ==
  IF job.options.limit = 1 THEN {job.selected[1]} ELSE Range(job.selected)

Patched(doc, replace) == ReplaceInPlace(doc, Modify(doc, replace))

\* C14: an update that selects at least one document patches exactly the
\* documents find selects for it, updateOne the first of them only, and
\* leaves every other document as it was
UpdatePatchesSelection ==
  [][(UpdateJob /\ Head(jobs).results # <<>>) =>
       /\ DOMAIN heap' = DOMAIN heap
       /\ \A adr \in DOMAIN heap :
            heap'[adr] = IF adr \in ToPatch(Head(jobs))
                         THEN Patched(heap[adr], Head(jobs).replace)
                         ELSE heap[adr]]_vars

\* C14, its case: of two stored documents that matched, updateOne has
\* patched the first and left the second
UpdatePatchesSelectionCase ==
  /\ Len(content) = 2
  /\ Get(heap[content[1]], "a") = Num(2)
  /\ Get(heap[content[2]], "a") = Num(1)
  /\ Len(changesToNotify) = 2
  /\ changesToNotify[1].operationType = "insert"
  /\ changesToNotify[1]._id = Get(heap[content[2]], "_id")
  /\ changesToNotify[2].operationType = "update"
  /\ changesToNotify[2]._id = Get(heap[content[1]], "_id")

\* C15: an update that selects at least one document changes no stored
\* document's _id, nor the number of the stored documents, nor their order
UpdateKeepsIdsAndOrder ==
  [][(UpdateJob /\ Head(jobs).results # <<>>) =>
       /\ content' = content
       /\ \A adr \in DOMAIN heap :
            Get(heap'[adr], "_id") = Get(heap[adr], "_id")]_vars

\* C15, its case: a stored document has been patched by the replacement
\* that carries another _id, and has kept its own
UpdateKeepsIdsAndOrderCase ==
  \E i \in 1..Len(content) :
    /\ Get(heap[content[i]], "a") = Num(3)
    /\ Get(heap[content[i]], "_id") # Str("9")
    /\ \E j \in 1..Len(changesToNotify) :
         /\ changesToNotify[j].operationType = "update"
         /\ changesToNotify[j]._id = Get(heap[content[i]], "_id")

\* C16: an update that selects no document and does not upsert resolves and
\* leaves the stored documents, the id counter, the pending changes and the
\* debounce timer as they were, so that no callback follows from it
UpdateWithoutMatchIsNoOp ==
  [][(UpdateJob /\ Head(jobs).results = <<>> /\ ~Head(jobs).options.upsert) =>
       /\ outcome'[Head(jobs).call] = "resolved"
       /\ heap' = heap
       /\ content' = content
       /\ lastId' = lastId
       /\ changesToNotify' = changesToNotify
       /\ notifyTimeout' = notifyTimeout
       /\ timers' = timers]_vars

\* C16, its case: after an insert and half a debounce window, an update
\* that matched nothing has resolved; the change of the insert is pending
\* and the timer has not been restarted
UpdateWithoutMatchIsNoOpCase ==
  /\ opCount = 2
  /\ jobs = <<>>
  /\ outcome = <<"resolved", "resolved">>
  /\ Len(heap) = 1
  /\ Len(content) = 1
  /\ Len(changesToNotify) = 1
  /\ changesToNotify[1].operationType = "insert"
  /\ sinceNotify = TickLen
  /\ notifyTimeout \in DOMAIN timers

\* C17: once the upserts for one criteria on a new collection have
\* resolved, one document has been inserted and find on the criteria
\* returns one result, whether the calls were awaited or back-to-back
UpsertInsertsOne ==
  (opCount >= 1 /\ jobs = <<>> /\ \A i \in 1..Len(outcome) : outcome[i] = "resolved") =>
    /\ Len(heap) = 1
    /\ Len(FindAll(Col, UpsertQuery, NoOptions)) = 1

\* C18: remove takes out of the store exactly the documents it selected and
\* keeps the others in their order, with justOne exactly one document, and
\* queues one remove change per removed id
RemoveRemovesSelection ==
  [][RemoveJob =>
       LET sel == Head(jobs).results
       IN /\ content' = SelectSeq(content, LAMBDA adr : adr \notin Range(sel))
          /\ (Head(jobs).options.limit = 1 /\ sel # <<>>) =>
               Len(content') = Len(content) - 1
          /\ \A adr \in Range(sel) :
               Cardinality({i \in 1..Len(changesToNotify') :
                              /\ changesToNotify'[i]._id = Get(heap[adr], "_id")
                              /\ changesToNotify'[i].operationType = "remove"}) = 1]_vars

\* what an operator of a mapping requires of the value
OperatorHolds(op, value, operand) ==
  CASE op = "$eq" -> StrictEq(value, operand)
    [] op = "$ne" -> ~StrictEq(value, operand)
    [] op = "$gt" -> JsGreater(value, operand)
    [] op = "$gte" -> JsGreaterEq(value, operand)
    [] op = "$lt" -> JsLess(value, operand)
    [] op = "$lte" -> JsLessEq(value, operand)
    [] op = "$in" -> IndexOfFound(operand, value)
    [] op = "$nin" -> ~IndexOfFound(operand, value)

\* a literal matches a present field strictly equal to it; an operator
\* mapping matches a present field for which every operator holds
FieldMatches(doc, f, q) ==
  /\ HasOwn(doc, f)
  /\ IF q[1] = "object"
     THEN \A op \in DOMAIN q[2] : OperatorHolds(op, doc[f], q[2][op])
     ELSE StrictEq(doc[f], q)

UsesExists(query) ==
  \E f \in DOMAIN query : query[f][1] = "object" /\ "$exists" \in DOMAIN query[f][2]

\* C19: the matcher returns true iff every field of the query matches, a
\* literal by presence and strict equality, an operator mapping by presence
\* and every operator of $eq, $ne, $gt, $gte, $lt, $lte, $in and $nin
MatcherIsConjunction ==
  (probe.fn = "matches" /\ ~UsesExists(probe.query)) =>
    probe.result =
      Bool(\A f \in DOMAIN probe.query : FieldMatches(probe.docs[1], f, probe.query[f]))

\* C20: {f: {$exists: true}} matches iff the document has the field f, and
\* {f: {$exists: false}} iff it does not
ExistsTestsPresence ==
  \A f \in {"a", "b"}, b \in BOOLEAN :
    (probe.fn = "matches" /\ probe.query = (f :> Obj("$exists" :> Bool(b)))) =>
      probe.result = Bool(HasOwn(probe.docs[1], f) <=> b)

Without(query, f) == [g \in DOMAIN query \ {f} |-> query[g]]

\* C21 as stated: a field of the query whose sub-query is falsy imposes no
\* constraint, the matcher answers as for the query without that field
FalsySubQueryIsNoConstraint ==
  \A f \in {"a", "b"} :
    (probe.fn = "matches" /\ f \in DOMAIN probe.query /\ probe.query[f] \in FalsyValues) =>
      probe.result = Bool(ElementIsValidForQuery(probe.docs[1], Without(probe.query, f)))

\* C21 as amended: a field of the query whose sub-query is falsy is a literal
\* constraint: the matcher answers true iff it does for the query without
\* that field and the document has the field with that very value
FalsySubQueryIsLiteral ==
  \A f \in {"a", "b"} :
    (probe.fn = "matches" /\ f \in DOMAIN probe.query /\ probe.query[f] \in FalsyValues) =>
      probe.result =
        Bool(/\ ElementIsValidForQuery(probe.docs[1], Without(probe.query, f))
             /\ HasOwn(probe.docs[1], f)
             /\ probe.docs[1][f] = probe.query[f])

\* C21, its case: a document without the field a has been matched against
\* {a: null}
FalsySubQueryIsLiteralCase ==
  /\ probe.fn = "matches"
  /\ probe.query = [a |-> Null]
  /\ ~HasOwn(probe.docs[1], "a")
  /\ probe.result = Bool(FALSE)

\* the keys of the sort on which the documents a and b differ
DifferOn(a, b, sort) == {k \in 1..Len(sort) : Get(a, sort[k][1]) # Get(b, sort[k][1])}

\* C22: for a sort of non-zero directions the comparator returns 0 iff the
\* two documents are equal on every key, otherwise -1 or 1 by the first key
\* on which they differ, inverted for a negative direction; compare(a, b) is
\* -compare(b, a); and in what a find with that sort returns no element
\* compares greater than a later one
ComparatorOrdersByFirstDifference ==
  /\ probe.fn = "compare" =>
       LET a == probe.docs[1]
           b == probe.docs[2]
           sort == probe.options.sort
           differ == DifferOn(a, b, sort)
           k == CHOOSE i \in differ : \A j \in differ : i <= j
       IN /\ probe.result[2] \in {-1, 0, 1}
          /\ (probe.result[2] = 0) <=> (differ = {})
          /\ differ # {} =>
               /\ JsLess(Get(a, sort[k][1]), Get(b, sort[k][1])) =>
                    probe.result[2] = IF sort[k][2] > 0 THEN -1 ELSE 1
               /\ JsGreater(Get(a, sort[k][1]), Get(b, sort[k][1])) =>
                    probe.result[2] = IF sort[k][2] > 0 THEN 1 ELSE -1
          /\ probe.result[2] = 0 - OrderByManyProperties(b, a, sort, 1)
  /\ (probe.fn = "find" /\ probe.options.sort # <<>>) =>
       \A i, j \in 1..Len(probe.result) :
         i < j => OrderByManyProperties(probe.result[i], probe.result[j],
                                        probe.options.sort, 1) <= 0

IsDocument(v) == v[1] = "object"

\* C24: once its reactions have run, the promise of a call of update is
\* settled: rejected when the query or the patch is not an object, resolved
\* when both are and the call does not upsert, and never left pending
UpdateSettles ==
  (jobs = <<>> /\ probe.fn = "update") =>
    /\ outcome[probe.call] \in {"resolved", "rejected"}
    /\ (~IsDocument(probe.arg) \/ ~IsDocument(probe.replace)) =>
         outcome[probe.call] = "rejected"
    /\ (IsDocument(probe.arg) /\ IsDocument(probe.replace) /\ ~probe.options.upsert) =>
         outcome[probe.call] = "resolved"

\* the arguments C25 names: a non-object for insert, a non-object or an
\* array for insertOne, a non-array for insertMany, a non-object for find
BadArgument(fn, arg) ==
  CASE fn = "insert" -> ~IsDocument(arg) /\ ~IsArray(arg)
    [] fn = "insertOne" -> ~IsDocument(arg)
    [] fn = "insertMany" -> ~IsArray(arg)
    [] fn = "find" -> ~IsDocument(arg) /\ ~IsArray(arg)
    [] OTHER -> FALSE

\* C25: a call of insert, insertOne, insertMany or find with such an
\* argument rejects, and leaves the stored documents, the id counter, the
\* pending changes and the timer as they were
BadArgumentRejected ==
  [][(opCount' = opCount + 1 /\ BadArgument(probe'.fn, probe'.arg)) =>
       /\ outcome'[probe'.call] = "rejected"
       /\ UNCHANGED <<heap, content, lastId, changesToNotify, notifyTimeout,
                      timers>>]_vars

\* C26: subscribe without a watcher or without a callback throws, and so
\* does unsubscribe of a watcher that is not subscribed, the registry staying
\* as it was; unsubscribe of a subscribed watcher takes that watcher out of
\* the registry and no other
SubscriptionErrorsKeepRegistry ==
  [][subCount' = subCount + 1 =>
       /\ (probe'.fn = "subscribe"
             /\ (probe'.arg = Missing \/ probe'.callback = Missing)) =>
            probe'.threw /\ watchers' = watchers
       /\ (probe'.fn = "unsubscribe" /\ ~MapHas(watchers, probe'.arg)) =>
            probe'.threw /\ watchers' = watchers
       /\ (probe'.fn = "unsubscribe" /\ MapHas(watchers, probe'.arg)) =>
            /\ ~probe'.threw
            /\ Len(watchers') = Len(watchers) - 1
            /\ Range(watchers') = {e \in Range(watchers) : e.watcher # probe'.arg}]_vars

\* C26, its case: with another watcher subscribed, a watcher has
\* unsubscribed and its second unsubscribe has thrown
SubscriptionErrorsKeepRegistryCase ==
  /\ probe.fn = "unsubscribe"
  /\ probe.arg \in Range(firstSeen)
  /\ probe.threw
  /\ Len(watchers) = 1

\* the callbacks the registry holds for a watcher
CallbacksOf(map, watcher) ==
  LET entries == SelectSeq(map, LAMBDA e : e.watcher = watcher)
  IN [i \in 1..Len(entries) |-> entries[i].callback]

\* the callbacks a flush has invoked for a watcher
InvokedFor(calls, watcher) ==
  LET mine == SelectSeq(calls, LAMBDA c : c.watcher = watcher)
  IN [i \in 1..Len(mine) |-> mine[i].callback]

\* C27: after subscribe(w, cb) the registry holds cb for w and no other
\* callback, until w subscribes again or unsubscribes; and a flush invokes
\* every watcher of the registry exactly once, with the callback it holds
LatestCallbackInvokedOnce ==
  [][/\ \A w \in Watchers, cb \in Callbacks :
          Subscribe(w, cb) => CallbacksOf(watchers', w) = <<cb>>
     /\ \A w \in Watchers :
          CallbacksOf(watchers', w) # CallbacksOf(watchers, w) =>
            \/ \E cb \in Callbacks : Subscribe(w, cb)
            \/ Unsubscribe(w)
     /\ (\E h \in DOMAIN timers : Flush(h)) =>
          \A w \in Watchers :
            InvokedFor(lastFlush'.calls, w) = CallbacksOf(watchers, w)]_vars

\* what find() through a handle resolves to
FoundThrough(handle) ==
  Find(db.stores[handle.returned[2]], EmptyDoc, Undefined, NoOptions)

\* C28: the calls of getCollection with one name return one and the same
\* collection, so that the documents inserted through one handle are found
\* through the other, and showCollections lists the name exactly once
GetCollectionIsIdempotent ==
  \A i, j \in 1..Len(db.handles) :
    db.handles[i].name = db.handles[j].name =>
      /\ db.handles[i].returned[1] = "collection"
      /\ db.handles[i].returned = db.handles[j].returned
      /\ db.handles[i].returned[1] = "collection" =>
           FoundThrough(db.handles[i]) = FoundThrough(db.handles[j])
      /\ Cardinality({k \in 1..Len(ShowCollections(db)) :
                        ShowCollections(db)[k] = db.handles[i].name}) = 1

\* C29: an insert that is rejected leaves the id counter as it was
RejectedInsertConsumesNoId ==
  [][\A data \in Batches :
       (InsertOp(data) /\ LastOutcome(outcome') = "rejected") => lastId' = lastId]_vars

\* C30: when a call of insert, update or remove returns, the stored
\* documents are those the operation makes of the documents stored when it
\* was called
MutationInsideCall ==
  [][/\ \A data \in Batches :
          InsertOp(data) => StoredDocs' = RefInsert(RefOf(Col), data).ref.docs
     /\ \A query \in Queries, replace \in Patches, options \in UpdateOptions :
          UpdateOp(query, replace, options) =>
            StoredDocs' = RefUpdate(RefOf(Col), query, replace, options).ref.docs
     /\ \A query \in Queries, justOne \in BOOLEAN :
          RemoveOp(query, justOne) =>
            StoredDocs' = RefRemove(RefOf(Col), query, justOne).ref.docs]_vars


\* the places in docs of the documents matching query
MatchingAt(docs, query) == {i \in 1..Len(docs) : ElementIsValidForQuery(docs[i], query)}

\* docs without the document at place k
Except(docs, k) == SubSeq(docs, 1, k - 1) \o SubSeq(docs, k + 1, Len(docs))

\* a remove with justOne has resolved
JustOneRemoved ==
  probe.fn = "remove" /\ probe.options.justOne /\ outcome[probe.call] = "resolved"

\* C31 (as stated): remove with { justOne: true, sort: S } takes out the
\* matching document that comes first in the order of S: a matching document
\* that no other matching document precedes under S
JustOneRemovesFirstSorted ==
  JustOneRemoved =>
    LET m == MatchingAt(probe.docs, probe.query)
    IN m # {} =>
         \E k \in m :
           /\ StoredNow = Except(probe.docs, k)
           /\ \A j \in m : ~Precedes(probe.docs[j], probe.docs[k], probe.options.sort)

\* C31: remove with { justOne: true, sort: S } does not use S: it takes out
\* the first matching document in store order, and nothing when none matches
JustOneRemovesFirstStored ==
  JustOneRemoved =>
    LET m == MatchingAt(probe.docs, probe.query)
    IN StoredNow = IF m = {} THEN probe.docs
                   ELSE Except(probe.docs, CHOOSE k \in m : \A j \in m : k <= j)

\* a justOne remove with a sort has taken out the first matching document
\* although another matching document precedes it under the sort
JustOneRemovesFirstStoredCase ==
  /\ JustOneRemoved
  /\ probe.options.sort # <<>>
  /\ Len(StoredNow) < Len(probe.docs)
  /\ LET m == MatchingAt(probe.docs, probe.query)
     IN \E j \in m :
          Precedes(probe.docs[j], probe.docs[CHOOSE k \in m : \A l \in m : k <= l],
                   probe.options.sort)


\* C32: no callback is invoked with an empty payload and every flush finds a
\* change to deliver; a remove that takes out no document and an update that
\* selects none and does not upsert leave the debounce timer as it is
EveryFlushDelivers ==
  [][/\ (\E h \in DOMAIN timers : Flush(h)) =>
          /\ changesToNotify # <<>>
          /\ \A i \in 1..Len(lastFlush'.calls) : lastFlush'.calls[i].payload # <<>>
     /\ (RemoveJob /\ content' = content) =>
          (timers' = timers /\ notifyTimeout' = notifyTimeout)
     /\ (UpdateJob /\ Head(jobs).results = <<>> /\ ~Head(jobs).options.upsert) =>
          (timers' = timers /\ notifyTimeout' = notifyTimeout)]_vars


\* C33: an update with upsert, whatever its sort, skip and limit, stores no
\* new document when a stored document matches the query
UpsertOnlyWithoutMatch ==
  (/\ probe.fn = "update"
   /\ probe.options.upsert
   /\ outcome[probe.call] = "resolved"
   /\ MatchingAt(probe.docs, probe.query) # {}) => Len(content) = Len(probe.docs)


\* C34: a flush in which a callback throws still invokes the callback of
\* every subscribed watcher with the payload, and leaves the pending buffer
\* empty
ThrowingCallbackKeepsFlush ==
  [][((\E h \in DOMAIN timers : Flush(h))
        /\ \E i \in 1..Len(watchers) : watchers[i].callback = "throw") =>
       /\ \A i \in 1..Len(watchers) :
            \E k \in 1..Len(lastFlush'.calls) :
              /\ lastFlush'.calls[k].watcher = watchers[i].watcher
              /\ lastFlush'.calls[k].payload = changesToNotify
       /\ changesToNotify' = <<>>]_vars


\* the calls of the flush that invoke the watcher that subscribed last
CallsOfLast(calls) ==
  {k \in 1..Len(calls) : probe.fn = "subscribe" /\ calls[k].watcher = probe.watcher}

\* C35 (as stated): the payload handed to a watcher holds no change that was
\* already pending when the watcher subscribed, unless a call made or settled
\* since then can have produced it again
PayloadOnlySinceSubscribe ==
  [][(\E h \in DOMAIN timers : Flush(h)) =>
       \A k \in CallsOfLast(lastFlush'.calls) :
         \A c \in Range(lastFlush'.calls[k].payload) :
           c \notin Range(probe.pending) \/ outcome # probe.outcome]_vars

\* C35: the payload handed to a watcher is the pending buffer, whenever the
\* watcher subscribed: it holds every change pending when the flush begins,
\* and with no call made or settled since the subscribe every change that
\* was pending at the subscribe
LateSubscriberReceivesPending ==
  [][(\E h \in DOMAIN timers : Flush(h)) =>
       \A k \in CallsOfLast(lastFlush'.calls) :
         /\ Range(changesToNotify) \subseteq Range(lastFlush'.calls[k].payload)
         /\ outcome = probe.outcome =>
              Range(probe.pending) \subseteq Range(lastFlush'.calls[k].payload)]_vars

\* a watcher has subscribed while changes were pending, no call was made or
\* settled afterwards, and the flush has handed it those changes
LateSubscriberReceivesPendingCase ==
  /\ probe.fn = "subscribe"
  /\ probe.pending # <<>>
  /\ outcome = probe.outcome
  /\ lastFlush.happened /\ lastFlush.cleared
  /\ changesToNotify = <<>>
  /\ \E k \in CallsOfLast(lastFlush.calls) : lastFlush.calls[k].payload = probe.pending

====
